---- MODULE Spec2Model ----
(***************************************************************************)
(* PaginationDetector (src/lib/pagination-detector.js): the cascade of six *)
(* next-page matchers over a document, the traversal controller            *)
(* navigateToNextPage with its polling wait waitForNewContent, and the     *)
(* reporting calls getPaginationInfo and detectInfiniteScroll.             *)
(*                                                                         *)
(* A string is a sequence of characters, a character a one-letter string;  *)
(* a character outside ASCII is written by its code point, "U+203A".       *)
(* An absent string value (JS null, undefined or '') is the empty          *)
(* sequence wherever the code only tests it for truthiness.                *)
(***************************************************************************)
EXTENDS Integers, Sequences, FiniteSets, TLC

VARIABLES
    doc,            \* the document: its elements in document order
    location,       \* window.location.href
    scrollHeight,   \* document.body.scrollHeight
    now,            \* Date.now() in ms, counted from the start of the wait in flight
    op,             \* the call of the last step, "event" after a step of the page or the timer
    ret,            \* what that call returned at once (none for an event or an asynchronous call)
    lastLocated,    \* the result of the last findNextPage() call, while document and location stay as they were
    previous,       \* at a findNextPage() call: lastLocated as it was before the call
    call,           \* the navigateToNextPage() or waitForNewContent() call in flight or just settled
    wait            \* the interval timer and the promise of waitForNewContent()

vars == <<doc, location, scrollHeight, now, op, ret, lastLocated, previous, call, wait>>

(***************************************************************************)
(* Bounds of the model.                                                    *)
(***************************************************************************)
MaxElems == 2

\* the body heights run over 0..MaxHeight
MaxHeight == 2

\* the clock stops at MaxTime ms; a wait starts only if its timeout falls before that
MaxTime == 5000

(***************************************************************************)
(* Strings.                                                                *)
(***************************************************************************)
Digits == {"0", "1", "2", "3", "4", "5", "6", "7", "8", "9"}

Whitespace == {" ", "\t", "\n"}

Quotes == {"'", "\""}

\* the lower-case letter of each upper-case ASCII letter
lowerOf ==
    [c \in {"A", "B", "C", "D", "E", "F", "G", "H", "I", "J", "K", "L", "M",
            "N", "O", "P", "Q", "R", "S", "T", "U", "V", "W", "X", "Y", "Z"} |->
        CASE c = "A" -> "a" [] c = "B" -> "b" [] c = "C" -> "c" [] c = "D" -> "d"
          [] c = "E" -> "e" [] c = "F" -> "f" [] c = "G" -> "g" [] c = "H" -> "h"
          [] c = "I" -> "i" [] c = "J" -> "j" [] c = "K" -> "k" [] c = "L" -> "l"
          [] c = "M" -> "m" [] c = "N" -> "n" [] c = "O" -> "o" [] c = "P" -> "p"
          [] c = "Q" -> "q" [] c = "R" -> "r" [] c = "S" -> "s" [] c = "T" -> "t"
          [] c = "U" -> "u" [] c = "V" -> "v" [] c = "W" -> "w" [] c = "X" -> "x"
          [] c = "Y" -> "y" [] c = "Z" -> "z"]

toLowerCaseChar(c) == IF c \in DOMAIN lowerOf THEN lowerOf[c] ELSE c

toLowerCase(s) == [i \in 1..Len(s) |-> toLowerCaseChar(s[i])]

\* String.prototype.includes
includes(s, sub) ==
    \E i \in 0..(Len(s) - Len(sub)) : SubSeq(s, i + 1, i + Len(sub)) = sub

\* String.prototype.trim
trim(s) ==
    LET ink == {i \in 1..Len(s) : s[i] \notin Whitespace}
    IN  IF ink = {} THEN <<>>
        ELSE SubSeq(s, CHOOSE i \in ink : \A j \in ink : i <= j,
                       CHOOSE i \in ink : \A j \in ink : i >= j)

\* s split at white space, as classList does with the class attribute
RECURSIVE tokens(_)
tokens(s) ==
    LET t == trim(s)
        cut == {i \in 1..Len(t) : t[i] \in Whitespace}
    IN  IF t = <<>> THEN {}
        ELSE IF cut = {} THEN {t}
        ELSE LET c == CHOOSE i \in cut : \A j \in cut : i <= j
             IN  {SubSeq(t, 1, c - 1)} \cup tokens(SubSeq(t, c + 1, Len(t)))

(***************************************************************************)
(* The regular expressions of the detector.  Each one is an alternation of *)
(* literals, or of literals joined by ".*": a regex is the set of its      *)
(* alternatives, an alternative the sequence of its literals in order, and *)
(* the flag i folds the case of the subject.  An optional tail such as     *)
(* "\s*(page)?" never changes what test() answers and is left out.  The    *)
(* texts of the model hold no line terminator, which "." would not match.  *)
(***************************************************************************)
RECURSIVE matchChunks(_, _)
matchChunks(s, chunks) ==
    IF chunks = <<>> THEN TRUE
    ELSE LET lit == Head(chunks)
         IN  \E i \in 0..(Len(s) - Len(lit)) :
                /\ SubSeq(s, i + 1, i + Len(lit)) = lit
                /\ matchChunks(SubSeq(s, i + Len(lit) + 1, Len(s)), Tail(chunks))

\* RegExp.prototype.test for a regex without the g flag: no lastIndex state
RegexTest(re, s) ==
    LET subject == IF re.i THEN toLowerCase(s) ELSE s
    IN  \E alt \in re.alts : matchChunks(subject, alt)

\* some pattern of the list matches s (the subject is folded once for the list)
anyOf(patterns, s) ==
    LET folded == toLowerCase(s)
    IN  \E k \in 1..Len(patterns) :
           \E alt \in patterns[k].alts : matchChunks(IF patterns[k].i THEN folded ELSE s, alt)

textPatterns == <<
    [alts |-> {<<<<"n", "e", "x", "t">>>>}, i |-> TRUE],
    [alts |-> {<<<<"s", "i", "g", "u", "i", "e", "n", "t", "e">>>>}, i |-> TRUE],
    [alts |-> {<<<<"s", "u", "i", "v", "a", "n", "t">>>>}, i |-> TRUE],
    [alts |-> {<<<<"w", "e", "i", "t", "e", "r">>>>}, i |-> TRUE],
    [alts |-> {<<<<"U+6B21", "U+3078">>>>, <<<<"U+6B21", "U+306E", "U+30DA", "U+30FC", "U+30B8">>>>}, i |-> TRUE],
    [alts |-> {<<<<"U+B2E4", "U+C74C">>>>}, i |-> TRUE],
    [alts |-> {<<<<"U+4E0B", "U+4E00", "U+9875">>>>, <<<<"U+4E0B", "U+4E00", "U+9801">>>>}, i |-> TRUE],
    [alts |-> {<<<<"p", "r", "U+00F3", "x", "i", "m", "a">>>>}, i |-> TRUE],
    [alts |-> {<<<<"v", "o", "l", "g", "e", "n", "d", "e">>>>}, i |-> TRUE],
    [alts |-> {<<<<"n", "U+00E4", "s", "t", "a">>>>}, i |-> TRUE],
    [alts |-> {<<<<"f", "U+00F8", "l", "g", "e", "n", "d", "e">>>>}, i |-> TRUE],
    [alts |-> {<<<<"U+2192">>>>, <<<<"U+203A">>>>, <<<<"U+00BB">>>>, <<<<"U+27E9">>>>, <<<<"U+21E8">>>>, <<<<"U+2794">>>>, <<<<"U+279C">>>>, <<<<"U+27A1">>>>},
     i |-> FALSE] >>

classIdPatterns == <<
    [alts |-> {<<<<"n", "e", "x", "t">>>>}, i |-> TRUE],
    [alts |-> {<<<<"p", "a", "g", "i", "n", "a", "t", "i", "o", "n">>, <<"n", "e", "x", "t">>>>}, i |-> TRUE],
    [alts |-> {<<<<"n", "a", "v">>, <<"n", "e", "x", "t">>>>}, i |-> TRUE],
    [alts |-> {<<<<"f", "o", "r", "w", "a", "r", "d">>>>}, i |-> TRUE],
    [alts |-> {<<<<"a", "r", "r", "o", "w">>, <<"r", "i", "g", "h", "t">>>>}, i |-> TRUE],
    [alts |-> {<<<<"c", "h", "e", "v", "r", "o", "n">>, <<"r", "i", "g", "h", "t">>>>}, i |-> TRUE] >>

relPatterns == <<<<"n", "e", "x", "t">>, <<"n", "o", "f", "o", "l", "l", "o", "w", " ", "n", "e", "x", "t">>>>

ariaPatterns == <<
    [alts |-> {<<<<"n", "e", "x", "t">>>>}, i |-> TRUE],
    [alts |-> {<<<<"g", "o", " ", "t", "o", " ", "n", "e", "x", "t">>>>}, i |-> TRUE],
    [alts |-> {<<<<"n", "a", "v", "i", "g", "a", "t", "e", " ", "t", "o", " ", "n", "e", "x", "t">>>>}, i |-> TRUE] >>

\* the container selectors, by name
paginationSelectors == <<
    ".pagination", ".pager", ".page-navigation", ".nav-links", "[role=navigation]",
    "nav", ".paginator", ".page-numbers", ".wp-pagenavi", ".pagination-wrapper" >>

infiniteScrollPatterns == <<
    <<"l", "o", "a", "d", " ", "m", "o", "r", "e">>, <<"s", "h", "o", "w", " ", "m", "o", "r", "e">>, <<"s", "e", "e", " ", "m", "o", "r", "e">>, <<"v", "i", "e", "w", " ", "m", "o", "r", "e">>, <<"c", "a", "r", "g", "a", "r", " ", "m", "U+00E1", "s">>,
    <<"c", "h", "a", "r", "g", "e", "r", " ", "p", "l", "u", "s">>, <<"m", "e", "h", "r", " ", "l", "a", "d", "e", "n">>, <<"U+3082", "U+3063", "U+3068", "U+898B", "U+308B">>, <<"U+B354", " ", "U+BCF4", "U+AE30">>, <<"U+52A0", "U+8F7D", "U+66F4", "U+591A">> >>

\* pattern.toLowerCase() of each infinite-scroll pattern
lowerCasePatterns ==
    [p \in 1..Len(infiniteScrollPatterns) |-> toLowerCase(infiniteScrollPatterns[p])]

\* /^\d+$/
allDigits(s) == s # <<>> /\ \A i \in 1..Len(s) : s[i] \in Digits

\* /next|U+203A|U+2192|U+00BB/i
nextIndicator == [alts |-> {<<<<"n", "e", "x", "t">>>>, <<<<"U+203A">>>>, <<<<"U+2192">>>>, <<<<"U+00BB">>>>}, i |-> TRUE]

(***************************************************************************)
(* The document.  An element is a record: its tag, its attributes (a       *)
(* function from the names of the attributes it carries to their values),  *)
(* its text content, its computed style, its bounding box, and the         *)
(* pagination containers it lies in, named by the selector whose first     *)
(* match the container is.  doc is the sequence of the elements in         *)
(* document order; an element reference is an index of doc.                *)
(***************************************************************************)
hasAttribute(e, name) == name \in DOMAIN e.attrs

\* getAttribute(name) || ''
getAttribute(e, name) == IF hasAttribute(e, name) THEN e.attrs[name] ELSE <<>>

\* the href property: anchors and links reflect the attribute, others have none
href(e) == IF e.tag \in {"a", "link", "area"} THEN getAttribute(e, "href") ELSE <<>>

\* the disabled property: form controls reflect the attribute, others have none
disabled(e) ==
    e.tag \in {"button", "input", "select", "textarea", "fieldset"} /\ hasAttribute(e, "disabled")

className(e) == getAttribute(e, "class")

classListContains(e, name) == name \in tokens(className(e))

\* the indices of d that satisfy a selector, in document order
indices(d, S) == SelectSeq([i \in 1..Len(d) |-> i], LAMBDA i : i \in S)

\* the first element of a sequence of indices, 0 (no element) when empty
first(s) == IF s = <<>> THEN 0 ELSE s[1]

\* a[href], button[onclick], button[data-href]
clickables(d) ==
    indices(d, {i \in 1..Len(d) :
        \/ d[i].tag = "a" /\ hasAttribute(d[i], "href")
        \/ d[i].tag = "button" /\ hasAttribute(d[i], "onclick")
        \/ d[i].tag = "button" /\ hasAttribute(d[i], "data-href")})

(***************************************************************************)
(* getElementText, getElementUrl, isValidNextPageElement.                  *)
(***************************************************************************)
getElementText(e) ==
    trim(e.textContent \o <<" ">> \o getAttribute(e, "title")
                       \o <<" ">> \o getAttribute(e, "alt")
                       \o <<" ">> \o getAttribute(e, "value"))

RECURSIVE skipSpaces(_, _)
skipSpaces(s, k) ==
    IF k <= Len(s) /\ s[k] \in Whitespace THEN skipSpaces(s, k + 1) ELSE k

\* the capture of /(?:location\.href|window\.location)\s*=\s*['"]([^'"]+)['"]/
\* when the alternative lit matches at position p of s, <<>> when it does not
assignmentAt(s, p, lit) ==
    LET eq == skipSpaces(s, p + Len(lit))
        open == skipSpaces(s, eq + 1)
        closes == {q \in (open + 1)..Len(s) : s[q] \in Quotes}
    IN  IF /\ p + Len(lit) - 1 <= Len(s)
           /\ SubSeq(s, p, p + Len(lit) - 1) = lit
           /\ eq <= Len(s) /\ s[eq] = "="
           /\ open <= Len(s) /\ s[open] \in Quotes
           /\ closes # {}
        THEN SubSeq(s, open + 1, (CHOOSE q \in closes : \A r \in closes : q <= r) - 1)
        ELSE <<>>

\* onclick.match(...)[1]: the capture of the leftmost match, <<>> without one
onclickUrl(s) ==
    LET at(p) == IF assignmentAt(s, p, <<"l", "o", "c", "a", "t", "i", "o", "n", ".", "h", "r", "e", "f">>) # <<>>
                 THEN assignmentAt(s, p, <<"l", "o", "c", "a", "t", "i", "o", "n", ".", "h", "r", "e", "f">>)
                 ELSE assignmentAt(s, p, <<"w", "i", "n", "d", "o", "w", ".", "l", "o", "c", "a", "t", "i", "o", "n">>)
        hits == {p \in 1..Len(s) : at(p) # <<>>}
    IN  IF hits = {} THEN <<>> ELSE at(CHOOSE p \in hits : \A q \in hits : p <= q)

getElementUrl(e) ==
    IF href(e) # <<>> THEN href(e)
    ELSE IF getAttribute(e, "data-href") # <<>> THEN getAttribute(e, "data-href")
    ELSE IF getAttribute(e, "data-url") # <<>> THEN getAttribute(e, "data-url")
    ELSE IF getAttribute(e, "data-link") # <<>> THEN getAttribute(e, "data-link")
    ELSE IF getAttribute(e, "onclick") # <<>> THEN onclickUrl(getAttribute(e, "onclick"))
    ELSE <<>>

\* the element reference null
noElement == [tag |-> "null"]

isValidNextPageElement(e) ==
    /\ e # noElement
    /\ ~(e.style.display = "none" \/ e.style.visibility = "hidden" \/ e.style.opacity = "0")
    /\ ~(e.rect.width = 0 /\ e.rect.height = 0)
    /\ ~(disabled(e) \/ (hasAttribute(e, "disabled") /\ e.attrs["disabled"] = <<"t", "r", "u", "e">>))

(***************************************************************************)
(* The six matchers.  A candidate is a record with the fields the matcher  *)
(* sets (confidence in hundredths); null is the result without candidate.  *)
(***************************************************************************)
null == [type |-> "null"]

findByRelAttribute(d) ==
    LET link(k) == first(indices(d, {i \in 1..Len(d) :
                        /\ d[i].tag \in {"a", "link"}
                        /\ hasAttribute(d[i], "rel")
                        /\ d[i].attrs["rel"] = relPatterns[k]}))
        ok == {k \in 1..Len(relPatterns) :
                  link(k) # 0 /\ isValidNextPageElement(d[link(k)])}
    IN  IF ok = {} THEN null
        ELSE LET k == CHOOSE x \in ok : \A y \in ok : x <= y
             IN  [element |-> link(k), url |-> href(d[link(k)]),
                  type |-> "rel-attribute", confidence |-> 100]

findByTextContent(d) ==
    LET links == clickables(d)
        ok == {k \in 1..Len(links) :
                  /\ anyOf(textPatterns, getElementText(d[links[k]]))
                  /\ isValidNextPageElement(d[links[k]])}
    IN  IF ok = {} THEN null
        ELSE LET link == links[CHOOSE x \in ok : \A y \in ok : x <= y]
                 url == getElementUrl(d[link])
             IN  [element |-> link, url |-> url, type |-> "text-content",
                  confidence |-> 90, clickOnly |-> (url = <<>>)]

\* `${element.className} ${element.id}`
classId(e) == className(e) \o <<" ">> \o getAttribute(e, "id")

findByClassId(d) ==
    LET elements == clickables(d)
        hit(p) == {k \in 1..Len(elements) :
                      /\ RegexTest(classIdPatterns[p], classId(d[elements[k]]))
                      /\ isValidNextPageElement(d[elements[k]])}
        ok == {p \in 1..Len(classIdPatterns) : hit(p) # {}}
    IN  IF ok = {} THEN null
        ELSE LET p == CHOOSE x \in ok : \A y \in ok : x <= y
                 element == elements[CHOOSE x \in hit(p) : \A y \in hit(p) : x <= y]
                 url == getElementUrl(d[element])
             IN  [element |-> element, url |-> url, type |-> "class-id",
                  confidence |-> 80, clickOnly |-> (url = <<>>)]

\* document.getElementById(id): the first element with that id, 0 without one
getElementById(d, id) ==
    first(indices(d, {i \in 1..Len(d) : hasAttribute(d[i], "id") /\ d[i].attrs["id"] = id}))

labelText(d, e) ==
    LET by == getAttribute(e, "aria-labelledby")
    IN  IF by = <<>> THEN getAttribute(e, "aria-label")
        ELSE getAttribute(e, "aria-label") \o <<" ">> \o
             (IF getElementById(d, by) # 0 THEN d[getElementById(d, by)].textContent ELSE <<>>)

findByAriaLabel(d) ==
    LET elements == indices(d, {i \in 1..Len(d) :
                        hasAttribute(d[i], "aria-label") \/ hasAttribute(d[i], "aria-labelledby")})
        ok == {k \in 1..Len(elements) :
                  /\ anyOf(ariaPatterns, labelText(d, d[elements[k]]))
                  /\ isValidNextPageElement(d[elements[k]])}
    IN  IF ok = {} THEN null
        ELSE LET element == elements[CHOOSE x \in ok : \A y \in ok : x <= y]
                 url == getElementUrl(d[element])
             IN  [element |-> element, url |-> url, type |-> "aria-label",
                  confidence |-> 85, clickOnly |-> (url = <<>>)]

\* the link a[href] after the current one in the container of a selector, 0 when
\* there is no container, no current link, no link after it, or its text is
\* neither a number nor a next indicator
nextLinkIn(d, selector) ==
    LET links == indices(d, {i \in 1..Len(d) :
                     selector \in d[i].within /\ d[i].tag = "a" /\ hasAttribute(d[i], "href")})
        isCurrent(e) == \/ {<<"c", "u", "r", "r", "e", "n", "t">>, <<"a", "c", "t", "i", "v", "e">>} \cap tokens(className(e)) # {}
                        \/ (hasAttribute(e, "aria-current") /\ e.attrs["aria-current"] = <<"p", "a", "g", "e">>)
                        \/ hasAttribute(e, "disabled")
        marked == {k \in 1..Len(links) : isCurrent(d[links[k]])}
        currentPageIndex == IF marked = {} THEN 0 ELSE CHOOSE x \in marked : \A y \in marked : x <= y
    IN  IF currentPageIndex >= 1 /\ currentPageIndex < Len(links)
        THEN LET nextText == getElementText(d[links[currentPageIndex + 1]])
             IN  IF allDigits(nextText) \/ RegexTest(nextIndicator, nextText)
                 THEN links[currentPageIndex + 1] ELSE 0
        ELSE 0

findNumberedPagination(d) ==
    LET ok == {k \in 1..Len(paginationSelectors) : nextLinkIn(d, paginationSelectors[k]) # 0}
    IN  IF ok = {} THEN null
        ELSE LET nextLink == nextLinkIn(d, paginationSelectors[CHOOSE x \in ok : \A y \in ok : x <= y])
             IN  [element |-> nextLink, url |-> href(d[nextLink]),
                  type |-> "numbered-pagination", confidence |-> 95]

findInfiniteScrollButton(d, loc) ==
    LET buttons == indices(d, {i \in 1..Len(d) :
                       \/ d[i].tag = "button"
                       \/ d[i].tag = "a" /\ hasAttribute(d[i], "href")
                       \/ (hasAttribute(d[i], "role") /\ d[i].attrs["role"] = <<"b", "u", "t", "t", "o", "n">>)})
        ok == {k \in 1..Len(buttons) :
                  LET text == toLowerCase(getElementText(d[buttons[k]]))
                  IN  \E p \in 1..Len(infiniteScrollPatterns) :
                         includes(text, lowerCasePatterns[p])}
    IN  IF ok = {} THEN null
        ELSE LET button == buttons[CHOOSE x \in ok : \A y \in ok : x <= y]
                 url == getElementUrl(d[button])
             IN  [element |-> button, url |-> IF url # <<>> THEN url ELSE loc,
                  type |-> "infinite-scroll", confidence |-> 70, isLoadMore |-> TRUE]

(***************************************************************************)
(* findNextPage: the cascade.  cascade(d, loc, k) is the loop from the     *)
(* k-th method on: the result and the methods the loop invoked.            *)
(***************************************************************************)
\* the matchers ordered by the confidence of their candidates instead
methodsByConfidence ==
    <<"findByRelAttribute", "findNumberedPagination", "findByTextContent",
      "findByAriaLabel", "findByClassId", "findInfiniteScrollButton">>

methods == <<"findByRelAttribute", "findByTextContent", "findByClassId",
             "findByAriaLabel", "findNumberedPagination", "findInfiniteScrollButton">>

method(name, d, loc) ==
    CASE name = "findByRelAttribute" -> findByRelAttribute(d)
      [] name = "findByTextContent" -> findByTextContent(d)
      [] name = "findByClassId" -> findByClassId(d)
      [] name = "findByAriaLabel" -> findByAriaLabel(d)
      [] name = "findNumberedPagination" -> findNumberedPagination(d)
      [] name = "findInfiniteScrollButton" -> findInfiniteScrollButton(d, loc)

RECURSIVE cascade(_, _, _)
cascade(d, loc, k) ==
    IF k > Len(methods) THEN [result |-> null, evaluated |-> SubSeq(methods, 1, Len(methods))]
    ELSE LET result == method(methods[k], d, loc)
         IN  IF result # null THEN [result |-> result, evaluated |-> SubSeq(methods, 1, k)]
             ELSE cascade(d, loc, k + 1)

findNextPage(d, loc) == cascade(d, loc, 1)

(***************************************************************************)
(* detectInfiniteScroll and getPaginationInfo.                             *)
(***************************************************************************)
detectInfiniteScroll(d) ==
    \/ \E i \in 1..Len(d) : hasAttribute(d[i], "data-infinite-scroll")
    \/ \E i \in 1..Len(d) : classListContains(d[i], <<"i", "n", "f", "i", "n", "i", "t", "e", "-", "s", "c", "r", "o", "l", "l">>)
    \/ \E i \in 1..Len(d) : hasAttribute(d[i], "data-auto-pager")

RECURSIVE decimal(_)
decimal(s) ==
    IF s = <<>> THEN 0
    ELSE 10 * decimal(SubSeq(s, 1, Len(s) - 1))
         + (CHOOSE v \in 0..9 : <<"0", "1", "2", "3", "4", "5", "6", "7", "8", "9">>[v + 1] = s[Len(s)])

\* parseInt(s) in radix 10: <<n>> for the number the longest signed digit prefix
\* of s spells after leading white space, <<>> for NaN
parseInt(s) ==
    LET t == SubSeq(s, skipSpaces(s, 1), Len(s))
        signed == t # <<>> /\ t[1] \in {"+", "-"}
        body == IF signed THEN Tail(t) ELSE t
        stops == {i \in 1..Len(body) : body[i] \notin Digits}
        n == IF stops = {} THEN Len(body) ELSE (CHOOSE i \in stops : \A j \in stops : i <= j) - 1
    IN  IF n = 0 THEN <<>>
        ELSE IF signed /\ t[1] = "-" THEN <<0 - decimal(SubSeq(body, 1, n))>>
        ELSE <<decimal(SubSeq(body, 1, n))>>

getPaginationInfo(d, loc) ==
    LET currentPageEl == first(indices(d, {i \in 1..Len(d) :
                             \/ classListContains(d[i], <<"c", "u", "r", "r", "e", "n", "t">>)
                             \/ classListContains(d[i], <<"a", "c", "t", "i", "v", "e">>)
                             \/ (hasAttribute(d[i], "aria-current") /\ d[i].attrs["aria-current"] = <<"p", "a", "g", "e">>)}))
        pageNum == IF currentPageEl = 0 THEN <<>> ELSE parseInt(getElementText(d[currentPageEl]))
        pageLinks == {i \in 1..Len(d) :
                         d[i].tag = "a" /\ d[i].within \cap {".pagination", ".pager", ".page-numbers"} # {}}
        pageNumbers == {parseInt(getElementText(d[i]))[1] :
                           i \in {j \in pageLinks : parseInt(getElementText(d[j])) # <<>>}}
    IN  [currentPage |-> IF pageNum # <<>> THEN pageNum[1] ELSE 1,
         totalPages |-> IF pageNumbers = {} THEN <<>>
                        ELSE <<CHOOSE m \in pageNumbers : \A n \in pageNumbers : m >= n>>,
         hasNext |-> findNextPage(d, loc).result # null,
         hasPrevious |-> \E i \in 1..Len(d) :
                            \/ /\ d[i].tag = "a" /\ hasAttribute(d[i], "rel") /\ d[i].attrs["rel"] = <<"p", "r", "e", "v">>
                            \/ classListContains(d[i], <<"p", "r", "e", "v">>)
                            \/ classListContains(d[i], <<"p", "r", "e", "v", "i", "o", "u", "s">>)]

(***************************************************************************)
(* The documents of the model: every sequence of at most MaxElems elements *)
(* drawn from a catalog of anchors, buttons and page links, among them an  *)
(* element that each matcher accepts and elements that fail the validity   *)
(* gate.                                                                   *)
(***************************************************************************)
element(tag, attrs, text) ==
    [tag |-> tag, attrs |-> attrs, textContent |-> text,
     style |-> [display |-> "block", visibility |-> "visible", opacity |-> "1"],
     rect |-> [width |-> 80, height |-> 24], within |-> {}]

\* <a rel="next" href="https://x/2" class="next">Next</a>
relNext ==
    element("a", ("rel" :> <<"n", "e", "x", "t">>) @@ ("href" :> <<"h", "t", "t", "p", "s", ":", "/", "/", "x", "/", "2">>) @@ ("class" :> <<"n", "e", "x", "t">>), <<"N", "e", "x", "t">>)

\* <a rel="nofollow next"></a>: a link without href, followed by a script
relNofollow == element("a", ("rel" :> <<"n", "o", "f", "o", "l", "l", "o", "w", " ", "n", "e", "x", "t">>), <<>>)

\* <a href="https://x/4">Siguiente</a>
textLink == element("a", ("href" :> <<"h", "t", "t", "p", "s", ":", "/", "/", "x", "/", "4">>), <<"S", "i", "g", "u", "i", "e", "n", "t", "e">>)

\* <button onclick="loadNext()">Next page</button>
spaButton == element("button", ("onclick" :> <<"l", "o", "a", "d", "N", "e", "x", "t", "(", ")">>), <<"N", "e", "x", "t", " ", "p", "a", "g", "e">>)

\* <button onclick="location.href='https://x/5'" class="btn forward"></button>
scriptButton ==
    element("button", ("onclick" :> <<"l", "o", "c", "a", "t", "i", "o", "n", ".", "h", "r", "e", "f", "=", "'", "h", "t", "t", "p", "s", ":", "/", "/", "x", "/", "5", "'">>) @@ ("class" :> <<"b", "t", "n", " ", "f", "o", "r", "w", "a", "r", "d">>), <<>>)

\* <div role="button" aria-label="Go to next page"></div>
ariaButton == element("div", ("role" :> <<"b", "u", "t", "t", "o", "n">>) @@ ("aria-label" :> <<"G", "o", " ", "t", "o", " ", "n", "e", "x", "t", " ", "p", "a", "g", "e">>), <<>>)

\* <a href="https://x/p3" class="current">3</a> in the container .pagination
pageCurrent ==
    [element("a", ("href" :> <<"h", "t", "t", "p", "s", ":", "/", "/", "x", "/", "p", "3">>) @@ ("class" :> <<"c", "u", "r", "r", "e", "n", "t">>), <<"3">>)
        EXCEPT !.within = {".pagination"}]

\* <a href="https://x/p4">4</a> in the container .pagination
pageFour == [element("a", ("href" :> <<"h", "t", "t", "p", "s", ":", "/", "/", "x", "/", "p", "4">>), <<"4">>) EXCEPT !.within = {".pagination"}]

\* <button>Load More</button>
loadMore == element("button", <<>>, <<"L", "o", "a", "d", " ", "M", "o", "r", "e">>)

\* <a rel="prev" href="https://x/1" class="prev">Previous</a>
prevLink ==
    element("a", ("rel" :> <<"p", "r", "e", "v">>) @@ ("href" :> <<"h", "t", "t", "p", "s", ":", "/", "/", "x", "/", "1">>) @@ ("class" :> <<"p", "r", "e", "v">>), <<"P", "r", "e", "v", "i", "o", "u", "s">>)

\* <div class="infinite-scroll" data-infinite-scroll></div>
scrollMarker ==
    element("div", ("class" :> <<"i", "n", "f", "i", "n", "i", "t", "e", "-", "s", "c", "r", "o", "l", "l">>) @@ ("data-infinite-scroll" :> <<>>), <<>>)

Catalog == {relNext, relNofollow, textLink, spaButton, scriptButton, ariaButton,
            pageCurrent, pageFour, loadMore, prevLink, scrollMarker}

Documents == UNION {[1..n -> Catalog] : n \in 0..MaxElems}

(***************************************************************************)
(* The state after construction: no call made yet.                         *)
(***************************************************************************)
startLocation == <<"h", "t", "t", "p", "s", ":", "/", "/", "x", "/", "1">>

noCall ==
    [pc |-> "idle", kind |-> "none", candidate |-> null, clicks |-> <<>>, navigations |-> <<>>,
     waits |-> 0, threw |-> FALSE, result |-> "none"]

noWait ==
    [active |-> FALSE, due |-> FALSE, startTime |-> 0, initialHeight |-> 0, maxWait |-> 0,
     grew |-> FALSE, expired |-> FALSE, resolves |-> 0, outcome |-> "none"]

none == [type |-> "none"]

Init ==
    /\ doc \in Documents
    /\ location = startLocation
    /\ scrollHeight = 1
    /\ now = 0
    /\ op = "new"
    /\ ret = none
    /\ lastLocated = none
    /\ previous = none
    /\ call = noCall
    /\ wait = noWait

(***************************************************************************)
(* The detection calls, and the page restyling an element under them.      *)
(***************************************************************************)
\* a findNextPage() that scrolls its candidate into view
FindNextPageCallScrolling ==
    /\ call.pc = "idle"
    /\ op' = "findNextPage"
    /\ ret' = findNextPage(doc, location)
    /\ lastLocated' = ret'.result
    /\ previous' = lastLocated
    /\ scrollHeight' = IF ret'.result = null THEN scrollHeight ELSE 0
    /\ UNCHANGED <<doc, location, now, call, wait>>

FindNextPageCall ==
    /\ call.pc = "idle"
    /\ op' = "findNextPage"
    /\ ret' = findNextPage(doc, location)
    /\ lastLocated' = ret'.result
    /\ previous' = lastLocated
    /\ UNCHANGED <<doc, location, scrollHeight, now, call, wait>>

GetPaginationInfoCall ==
    /\ call.pc = "idle"
    /\ op' = "getPaginationInfo"
    /\ ret' = getPaginationInfo(doc, location)
    /\ previous' = none
    /\ UNCHANGED <<doc, location, scrollHeight, now, lastLocated, call, wait>>

DetectInfiniteScrollCall ==
    /\ call.pc = "idle"
    /\ op' = "detectInfiniteScroll"
    /\ ret' = detectInfiniteScroll(doc)
    /\ previous' = none
    /\ UNCHANGED <<doc, location, scrollHeight, now, lastLocated, call, wait>>

\* the page shows or hides one of its elements
Restyle ==
    /\ \E i \in 1..Len(doc) :
          doc' = [doc EXCEPT ![i].style.visibility = IF @ = "hidden" THEN "visible" ELSE "hidden"]
    /\ op' = "event"
    /\ ret' = none
    /\ lastLocated' = none
    /\ previous' = none
    /\ UNCHANGED <<location, scrollHeight, now, call, wait>>

Next ==
    \/ FindNextPageCall
    \/ GetPaginationInfoCall
    \/ DetectInfiniteScrollCall
    \/ Restyle

Spec == Init /\ [][Next]_vars

(***************************************************************************)
(* navigateToNextPage and waitForNewContent.  The call runs to its first   *)
(* await in one step; the interval callback is a step of its own, and the  *)
(* code after the await runs with the callback that resolves the promise.  *)
(* A result is "true", "false", "rejected" (the promise rejects), or       *)
(* "none" while the call is in flight.                                     *)
(***************************************************************************)
PollInterval == 100

DefaultMaxWait == 5000

\* !nextPageInfo.element, nextPageInfo.isLoadMore, nextPageInfo.url
hasElement(c) == "element" \in DOMAIN c /\ c.element # 0

isLoadMore(c) == "isLoadMore" \in DOMAIN c /\ c.isLoadMore

urlOf(c) == IF "url" \in DOMAIN c THEN c.url ELSE <<>>

\* the branches without the guard on a missing element
navigationPathUnguarded(c) ==
    IF c = null THEN "absent"
    ELSE IF isLoadMore(c) THEN "load-more"
    ELSE IF urlOf(c) # <<>> THEN "navigate"
    ELSE "click"

\* the branches with the click fallback taken before the url is looked at
navigationPathClickFirst(c) ==
    IF c = null \/ ~hasElement(c) THEN "absent"
    ELSE IF isLoadMore(c) THEN "load-more"
    ELSE "click"

\* the branch navigateToNextPage takes
navigationPath(c) ==
    IF c = null \/ ~hasElement(c) THEN "absent"
    ELSE IF isLoadMore(c) THEN "load-more"
    ELSE IF urlOf(c) # <<>> THEN "navigate"
    ELSE "click"

\* a catch block that rethrows: the promise of the call rejects
rethrown == "rejected"

\* the catch block: what the call returns when the try block threw
caught == "false"

\* the return after the await of waitForNewContent(), given what the wait resolved to
afterWait(outcome) == "true"

\* an interval callback that looks at the deadline before the height
pollOutcomeDeadlineFirst(currentHeight, initialHeight, elapsed, maxWait) ==
    IF elapsed >= maxWait THEN "false"
    ELSE IF currentHeight > initialHeight THEN "true"
    ELSE "none"

\* an interval callback without a deadline
pollOutcomeNoDeadline(currentHeight, initialHeight, elapsed, maxWait) ==
    IF currentHeight > initialHeight THEN "true" ELSE "none"

\* the interval callback: what it resolves the promise to, "none" to poll again
pollOutcome(currentHeight, initialHeight, elapsed, maxWait) ==
    IF currentHeight > initialHeight THEN "true"
    ELSE IF elapsed >= maxWait THEN "false"
    ELSE "none"

\* waitForNewContent(maxWait) up to the promise: the start time and height, and the timer.
\* Only differences of the clock are read, so the clock is counted from the start of the wait.
startWait(startTime, maxWait) ==
    [active |-> TRUE, due |-> FALSE, startTime |-> startTime, initialHeight |-> scrollHeight,
     maxWait |-> maxWait, grew |-> FALSE, expired |-> FALSE, resolves |-> 0, outcome |-> "none"]

\* what a caller passes: nothing, a candidate whose element is gone, or the last findNextPage() result
CandidateInputs ==
    {null, [type |-> "text-content", url |-> startLocation, confidence |-> 90, clickOnly |-> FALSE]}
        \cup (IF lastLocated \in {none, null} THEN {} ELSE {lastLocated})

MaxWaitInputs == {0, 250}

NavigateToNextPageCall ==
    /\ call.pc = "idle"
    /\ op' = "navigateToNextPage"
    /\ ret' = none
    /\ previous' = none
    /\ \E c \in CandidateInputs, throws \in BOOLEAN :
          LET path == navigationPath(c)
              entered == [noCall EXCEPT !.kind = "navigateToNextPage", !.candidate = c]
          IN  \/ /\ path = "absent"
                 /\ ~throws
                 /\ call' = [entered EXCEPT !.pc = "done", !.result = "false"]
                 /\ UNCHANGED <<location, now, lastLocated, wait>>
              \/ /\ path \in {"load-more", "click"}
                 /\ throws
                 /\ call' = [entered EXCEPT !.pc = "done", !.threw = TRUE, !.result = caught]
                 /\ UNCHANGED <<location, now, lastLocated, wait>>
              \/ /\ path \in {"load-more", "click"}
                 /\ ~throws
                 /\ DefaultMaxWait <= MaxTime
                 /\ call' = [entered EXCEPT !.pc = "waiting", !.clicks = <<c.element>>, !.waits = 1]
                 /\ now' = 0
                 /\ wait' = startWait(now', DefaultMaxWait)
                 /\ UNCHANGED <<location, lastLocated>>
              \/ /\ path = "navigate"
                 /\ throws
                 /\ call' = [entered EXCEPT !.pc = "done", !.threw = TRUE, !.result = caught]
                 /\ UNCHANGED <<location, now, lastLocated, wait>>
              \/ /\ path = "navigate"
                 /\ ~throws
                 /\ location' = urlOf(c)
                 /\ lastLocated' = none
                 /\ call' = [entered EXCEPT !.pc = "done", !.navigations = <<urlOf(c)>>, !.result = "true"]
                 /\ UNCHANGED <<now, wait>>
    /\ UNCHANGED <<doc, scrollHeight>>

\* a direct call of waitForNewContent(maxWait)
WaitForNewContentCall ==
    /\ call.pc = "idle"
    /\ \E maxWait \in MaxWaitInputs :
          /\ maxWait <= MaxTime
          /\ now' = 0
          /\ wait' = startWait(now', maxWait)
    /\ call' = [noCall EXCEPT !.kind = "waitForNewContent", !.pc = "waiting", !.waits = 1]
    /\ op' = "waitForNewContent"
    /\ ret' = none
    /\ previous' = none
    /\ UNCHANGED <<doc, location, scrollHeight, lastLocated>>

\* the interval callback
Poll ==
    /\ wait.active
    /\ wait.due
    /\ LET outcome == pollOutcome(scrollHeight, wait.initialHeight, now - wait.startTime, wait.maxWait)
       IN  /\ wait' = [wait EXCEPT !.due = FALSE,
                                    !.grew = scrollHeight > wait.initialHeight,
                                    !.expired = now - wait.startTime >= wait.maxWait,
                                    !.active = (outcome = "none"),
                                    !.resolves = IF outcome = "none" THEN @ ELSE @ + 1,
                                    !.outcome = outcome]
           /\ call' = IF outcome = "none" THEN call
                      ELSE [call EXCEPT !.pc = "done",
                                        !.result = IF call.kind = "navigateToNextPage"
                                                   THEN afterWait(outcome) ELSE outcome]
    /\ op' = "event"
    /\ ret' = none
    /\ previous' = none
    /\ UNCHANGED <<doc, location, scrollHeight, now, lastLocated>>

\* the clock advances while a wait is in flight, and its timer falls due
Tick ==
    /\ wait.active
    /\ now + PollInterval <= MaxTime
    /\ now' = now + PollInterval
    /\ wait' = [wait EXCEPT !.due = TRUE]
    /\ op' = "event"
    /\ ret' = none
    /\ previous' = none
    /\ UNCHANGED <<doc, location, scrollHeight, lastLocated, call>>

\* the page appends or removes content: the body height changes
ContentChange ==
    /\ \E h \in 0..MaxHeight : h # scrollHeight /\ scrollHeight' = h
    /\ op' = "event"
    /\ ret' = none
    /\ previous' = none
    /\ UNCHANGED <<doc, location, now, lastLocated, call, wait>>

\* the caller receives the result of the settled call; the records of the call are dropped
Settle ==
    /\ call.pc = "done"
    /\ call' = noCall
    /\ wait' = noWait
    /\ now' = 0
    /\ op' = "event"
    /\ ret' = none
    /\ previous' = none
    /\ UNCHANGED <<doc, location, scrollHeight, lastLocated>>

TraversalDocuments == {<<loadMore>>, <<spaButton>>, <<textLink>>}

InitTraversal ==
    /\ doc \in TraversalDocuments
    /\ location = startLocation
    /\ scrollHeight = 1
    /\ now = 0
    /\ op = "new"
    /\ ret = none
    /\ lastLocated = none
    /\ previous = none
    /\ call = noCall
    /\ wait = noWait

NextTraversal ==
    \/ FindNextPageCall
    \/ NavigateToNextPageCall
    \/ WaitForNewContentCall
    \/ Poll
    \/ Tick
    \/ ContentChange
    \/ Settle

SpecTraversal == InitTraversal /\ [][NextTraversal]_vars

FairSpecTraversal == SpecTraversal /\ WF_vars(Tick) /\ WF_vars(Poll)

(***************************************************************************)
(* The numbered-pagination matcher on its own: documents of at most        *)
(* MaxLinks page links that lie in the containers .pagination and .pager.  *)
(***************************************************************************)
MaxLinks == 3

pageLink(url, class, text, containers) ==
    [element("a", ("href" :> url) @@ ("class" :> class), text) EXCEPT !.within = containers]

\* <a href="https://x/p2" class="">2</a> in the container .pagination
pageTwo == pageLink(<<"h", "t", "t", "p", "s", ":", "/", "/", "x", "/", "p", "2">>, <<>>, <<"2">>, {".pagination"})

\* <a href="https://x/p9" class="">Last</a> in the container .pagination
pageLast == pageLink(<<"h", "t", "t", "p", "s", ":", "/", "/", "x", "/", "p", "9">>, <<>>, <<"L", "a", "s", "t">>, {".pagination"})

\* <a href="https://x/p4" class="">&raquo;</a> in the container .pagination
pageArrow == pageLink(<<"h", "t", "t", "p", "s", ":", "/", "/", "x", "/", "p", "4">>, <<>>, <<"U+00BB">>, {".pagination"})

\* <a href="https://x/p3" class="active">3</a> in the container .pager
pagerCurrent == pageLink(<<"h", "t", "t", "p", "s", ":", "/", "/", "x", "/", "p", "3">>, <<"a", "c", "t", "i", "v", "e">>, <<"3">>, {".pager"})

\* <a href="https://x/p4" class="">4</a> in the container .pager
pagerFour == pageLink(<<"h", "t", "t", "p", "s", ":", "/", "/", "x", "/", "p", "4">>, <<>>, <<"4">>, {".pager"})

PageLinks == {pageCurrent, pageFour, pageTwo, pageLast, pageArrow, pagerCurrent, pagerFour}

NumberedDocuments == UNION {[1..n -> PageLinks] : n \in 0..MaxLinks}

InitNumbered ==
    /\ doc \in NumberedDocuments
    /\ location = startLocation
    /\ scrollHeight = 1
    /\ now = 0
    /\ op = "new"
    /\ ret = none
    /\ lastLocated = none
    /\ previous = none
    /\ call = noCall
    /\ wait = noWait

FindNumberedPaginationCall ==
    /\ call.pc = "idle"
    /\ op' = "findNumberedPagination"
    /\ ret' = [result |-> findNumberedPagination(doc)]
    /\ lastLocated' = none
    /\ previous' = none
    /\ UNCHANGED <<doc, location, scrollHeight, now, call, wait>>

NextNumbered == FindNumberedPaginationCall

SpecNumbered == InitNumbered /\ [][NextNumbered]_vars

(***************************************************************************)
(* The validity gate on its own: a document of one element that is an      *)
(* anchor, a button or a div, with or without a disabled attribute, in     *)
(* every combination of display, visibility, opacity and box; the empty    *)
(* document stands for the null reference.                                 *)
(***************************************************************************)
GateElements ==
    {[tag |-> tag, attrs |-> attrs, textContent |-> <<"N", "e", "x", "t">>,
      style |-> [display |-> display, visibility |-> visibility, opacity |-> opacity],
      rect |-> [width |-> width, height |-> height], within |-> {}] :
        tag \in {"a", "button", "div"},
        attrs \in {<<>>, "disabled" :> <<>>, "disabled" :> <<"t", "r", "u", "e">>,
                   "disabled" :> <<"f", "a", "l", "s", "e">>},
        display \in {"block", "none"},
        visibility \in {"visible", "hidden"},
        opacity \in {"1", "0"},
        width \in {0, 80},
        height \in {0, 24}}

InitGate ==
    /\ doc \in {<<>>} \cup {<<e>> : e \in GateElements}
    /\ location = startLocation
    /\ scrollHeight = 1
    /\ now = 0
    /\ op = "new"
    /\ ret = none
    /\ lastLocated = none
    /\ previous = none
    /\ call = noCall
    /\ wait = noWait

\* the element the gate is asked about
elementOf(d) == IF d = <<>> THEN noElement ELSE d[1]

IsValidNextPageElementCall ==
    /\ call.pc = "idle"
    /\ op' = "isValidNextPageElement"
    /\ ret' = [result |-> isValidNextPageElement(elementOf(doc))]
    /\ lastLocated' = none
    /\ previous' = none
    /\ UNCHANGED <<doc, location, scrollHeight, now, call, wait>>

NextGate == IsValidNextPageElementCall

SpecGate == InitGate /\ [][NextGate]_vars

(***************************************************************************)
(* Properties of the detection calls, checked under Spec.                  *)
(***************************************************************************)
\* what each matcher yields on the document, in the order of the cascade
inOrder(d, loc) ==
    <<findByRelAttribute(d), findByTextContent(d), findByClassId(d),
      findByAriaLabel(d), findNumberedPagination(d), findInfiniteScrollButton(d, loc)>>

orderedNames ==
    <<"findByRelAttribute", "findByTextContent", "findByClassId",
      "findByAriaLabel", "findNumberedPagination", "findInfiniteScrollButton">>

\* C1: findNextPage() returns the candidate of the first matcher, in the order
\* RelAttribute, TextContent, ClassId, AriaLabel, NumberedPagination,
\* InfiniteScroll, that yields one, whatever the confidences; it evaluates the
\* matchers up to that one and no further; it returns null only when all six
\* yield none.
CascadeFirstMatchWins ==
    op = "findNextPage" =>
        LET found == inOrder(doc, location)
            hits == {k \in 1..6 : found[k] # null}
        IN  IF hits = {}
            THEN ret.result = null /\ ret.evaluated = orderedNames
            ELSE LET k == CHOOSE x \in hits : \A y \in hits : x <= y
                 IN  ret.result = found[k] /\ ret.evaluated = SubSeq(orderedNames, 1, k)

\* C1 witness: rel-attribute, text-content and class-id all yield a candidate,
\* and the rel-attribute one was returned after evaluating that matcher alone.
CascadePriorityCase ==
    /\ op = "findNextPage"
    /\ findByRelAttribute(doc) # null
    /\ findByTextContent(doc) # null
    /\ findByClassId(doc) # null
    /\ ret.result.type = "rel-attribute"
    /\ ret.evaluated = <<"findByRelAttribute">>

\* C2 (as claimed): the element of every candidate findNextPage() returns passes
\* isValidNextPageElement.
ReturnedElementIsValid ==
    (op = "findNextPage" /\ ret.result # null) =>
        isValidNextPageElement(doc[ret.result.element])

validRelMatches(d) ==
    {i \in 1..Len(d) : /\ d[i].tag \in {"a", "link"}
                       /\ hasAttribute(d[i], "rel")
                       /\ \E k \in 1..Len(relPatterns) : d[i].attrs["rel"] = relPatterns[k]
                       /\ isValidNextPageElement(d[i])}

validTextMatches(d) ==
    {i \in 1..Len(d) : /\ \E k \in 1..Len(clickables(d)) : clickables(d)[k] = i
                       /\ anyOf(textPatterns, getElementText(d[i]))
                       /\ isValidNextPageElement(d[i])}

validClassIdMatches(d) ==
    {i \in 1..Len(d) : /\ \E k \in 1..Len(clickables(d)) : clickables(d)[k] = i
                       /\ anyOf(classIdPatterns, classId(d[i]))
                       /\ isValidNextPageElement(d[i])}

validAriaMatches(d) ==
    {i \in 1..Len(d) : /\ hasAttribute(d[i], "aria-label") \/ hasAttribute(d[i], "aria-labelledby")
                       /\ anyOf(ariaPatterns, labelText(d, d[i]))
                       /\ isValidNextPageElement(d[i])}

\* C10 (as claimed): each of the four validating matchers, when an element its
\* pattern accepts fails the validity gate, goes on to the other matching
\* elements: it yields a candidate whenever some matching element passes the gate.
MatcherContinuesPastRejected ==
    /\ validRelMatches(doc) # {} =>
           findByRelAttribute(doc) # null /\ findByRelAttribute(doc).element \in validRelMatches(doc)
    /\ validTextMatches(doc) # {} =>
           findByTextContent(doc) # null /\ findByTextContent(doc).element \in validTextMatches(doc)
    /\ validClassIdMatches(doc) # {} =>
           findByClassId(doc) # null /\ findByClassId(doc).element \in validClassIdMatches(doc)
    /\ validAriaMatches(doc) # {} =>
           findByAriaLabel(doc) # null /\ findByAriaLabel(doc).element \in validAriaMatches(doc)

(***************************************************************************)
(* Properties of the traversal calls, checked under SpecTraversal and,     *)
(* for progress, FairSpecTraversal.                                        *)
(***************************************************************************)
\* the call in flight or just settled is navigateToNextPage(c) with c of the given shape
clickShaped(c) == c # null /\ hasElement(c) /\ (isLoadMore(c) \/ urlOf(c) = <<>>)

urlShaped(c) == c # null /\ hasElement(c) /\ ~isLoadMore(c) /\ urlOf(c) # <<>>

absentShaped(c) == c = null \/ ~hasElement(c)

advancing == call.kind = "navigateToNextPage"

\* C3 (as claimed): navigateToNextPage on a load-more candidate, or on one with an
\* element and no url, clicks the element exactly once, navigates nowhere, waits
\* once with the default timeout, and returns what the wait resolved to.
ClickAdvanceReturnsWaitOutcome ==
    (advancing /\ call.pc = "done" /\ ~call.threw /\ clickShaped(call.candidate)) =>
        /\ call.clicks = <<call.candidate.element>>
        /\ call.navigations = <<>>
        /\ call.waits = 1
        /\ wait.maxWait = DefaultMaxWait
        /\ call.result = wait.outcome

\* C4: a wait resolves true only at a poll that saw the height above the initial
\* height, including a poll at or past the deadline; it resolves false only at a
\* poll that saw no growth with at least maxWait elapsed; and it stays pending
\* only while no poll has seen growth or the deadline.
WaitOutcomeMatchesPoll ==
    /\ wait.outcome = "true" => wait.grew
    /\ wait.outcome = "false" =>
           /\ ~wait.grew
           /\ wait.expired
           /\ now - wait.startTime >= wait.maxWait
    /\ wait.active => (~wait.grew /\ ~wait.expired /\ wait.outcome = "none")

\* C4 witness: the poll that saw the deadline passed also saw growth, and the wait
\* resolved true.
GrowthAtDeadlinePoll ==
    wait.outcome = "true" /\ wait.grew /\ wait.expired /\ wait.resolves = 1

\* C5: every wait resolves, exactly once, no later than its first poll at or after
\* the deadline, and no poll runs after that; so every navigateToNextPage call
\* that clicked eventually returns.
WaitResolvesOnce ==
    /\ [](wait.resolves <= 1)
    /\ [](wait.active => (wait.resolves = 0 /\ ~wait.expired))
    /\ [][~wait.active /\ wait'.resolves # 0 => wait' = wait]_vars
    /\ (wait.active ~> ~wait.active)
    /\ ((advancing /\ call.pc = "waiting") ~> call.pc = "done")

\* C5 witness: a navigateToNextPage call that clicked has returned after its wait
\* ran into the deadline and resolved once.
ClickedCallTimedOut ==
    /\ advancing /\ call.pc = "done" /\ call.clicks # <<>>
    /\ wait.outcome = "false" /\ wait.resolves = 1 /\ ~wait.active

\* C6: whatever the candidate, when the click or the navigation throws, the call
\* returns false; its promise never rejects.
ThrowBecomesFalse ==
    /\ call.result # "rejected"
    /\ call.threw => (call.pc = "done" /\ call.result = "false" /\ call.waits = 0)

\* C6 witness: the click of a load-more candidate threw and the call returned false.
ClickThrew ==
    advancing /\ call.threw /\ isLoadMore(call.candidate) /\ call.result = "false"

\* C7 (as claimed): navigateToNextPage on a candidate with an element and a url
\* that is no load-more candidate navigates once to the url and returns true,
\* without click or wait; and no call both clicks and navigates.
UrlAdvanceNavigatesOnce ==
    /\ (advancing /\ urlShaped(call.candidate)) =>
           /\ call.pc = "done"
           /\ call.navigations = <<call.candidate.url>>
           /\ call.result = "true"
           /\ call.clicks = <<>>
           /\ call.waits = 0
    /\ ~(call.clicks # <<>> /\ call.navigations # <<>>)

\* C7 (amended): navigateToNextPage on a candidate with an element and a url that
\* is no load-more candidate returns at once without click or wait; it has
\* navigated once to the url and returns true, unless the navigation threw, and
\* then it has navigated nowhere and returns false; no call both clicks and
\* navigates.
UrlAdvanceNavigatesOnceUnlessThrown ==
    /\ (advancing /\ urlShaped(call.candidate)) =>
           /\ call.pc = "done"
           /\ call.clicks = <<>>
           /\ call.waits = 0
           /\ ~call.threw => (call.navigations = <<call.candidate.url>> /\ call.result = "true")
           /\ call.threw => (call.navigations = <<>> /\ call.result = "false")
    /\ ~(call.clicks # <<>> /\ call.navigations # <<>>)

\* C7 witness: a call on a located link has navigated to the link's url and returned true.
NavigatedToUrl ==
    /\ advancing /\ urlShaped(call.candidate) /\ ~call.threw
    /\ call.result = "true"
    /\ location = call.candidate.url
    /\ location # startLocation

\* C8: navigateToNextPage on an absent candidate, or on one without an element,
\* returns false at once, with no click, no navigation and no wait, and leaves the
\* document, the location and the body height as they were.
AbsentAdvanceIsFalse ==
    /\ []((advancing /\ absentShaped(call.candidate)) =>
             /\ call.pc = "done"
             /\ call.result = "false"
             /\ call.clicks = <<>>
             /\ call.navigations = <<>>
             /\ call.waits = 0
             /\ ~wait.active)
    /\ [][(op' = "navigateToNextPage" /\ absentShaped(call'.candidate))
            => UNCHANGED <<doc, location, scrollHeight, wait>>]_vars

\* C8 witness: a candidate that has a url but no element was passed, and the call
\* returned false with the location as it was.
ElementlessReturnedFalse ==
    /\ advancing /\ call.candidate # null /\ ~hasElement(call.candidate)
    /\ urlOf(call.candidate) # <<>>
    /\ call.result = "false"
    /\ location = startLocation

(***************************************************************************)
(* Properties of the candidates and of the matchers' parts.                *)
(***************************************************************************)
\* the clickOnly flag of a candidate, false when the candidate carries none
clickOnlyOf(c) == "clickOnly" \in DOMAIN c /\ c.clickOnly

\* C11 (as claimed): for every candidate findNextPage() returns, whatever its
\* type, clickOnly is true exactly when the candidate has no url (absent or
\* empty); and an infinite-scroll candidate has isLoadMore true and a url.
ClickOnlyIffNoUrl ==
    (op = "findNextPage" /\ ret.result # null) =>
        /\ clickOnlyOf(ret.result) <=> (urlOf(ret.result) = <<>>)
        /\ ret.result.type = "infinite-scroll" =>
               (isLoadMore(ret.result) /\ urlOf(ret.result) # <<>>)

\* the selectors of the list whose container exists in the document
existing(d) ==
    {k \in 1..Len(paginationSelectors) :
        \E i \in 1..Len(d) : paginationSelectors[k] \in d[i].within}

\* the link carries one of the marks of the current page
markedCurrent(e) ==
    \/ <<"c", "u", "r", "r", "e", "n", "t">> \in tokens(getAttribute(e, "class"))
    \/ <<"a", "c", "t", "i", "v", "e">> \in tokens(getAttribute(e, "class"))
    \/ getAttribute(e, "aria-current") = <<"p", "a", "g", "e">>
    \/ hasAttribute(e, "disabled")

\* C12 (as claimed): findNumberedPagination() looks only into the container of
\* the first selector of the list that matches: it yields the link that follows
\* the first link marked current there, when there is one and its text is a
\* number or a next indicator, and otherwise yields no candidate, whatever the
\* containers of later selectors hold.
NumberedFirstContainerOnly ==
    op = "findNumberedPagination" =>
        IF existing(doc) = {} THEN ret.result = null
        ELSE LET k == CHOOSE x \in existing(doc) : \A y \in existing(doc) : x <= y
                 links == SelectSeq([i \in 1..Len(doc) |-> i],
                              LAMBDA i : /\ paginationSelectors[k] \in doc[i].within
                                         /\ doc[i].tag = "a"
                                         /\ hasAttribute(doc[i], "href"))
                 marked == {c \in 1..Len(links) : markedCurrent(doc[links[c]])}
                 c == CHOOSE x \in marked : \A y \in marked : x <= y
             IN  IF /\ marked # {}
                    /\ c < Len(links)
                    /\ \/ allDigits(getElementText(doc[links[c + 1]]))
                       \/ RegexTest(nextIndicator, getElementText(doc[links[c + 1]]))
                 THEN /\ ret.result # null
                      /\ ret.result.element = links[c + 1]
                      /\ ret.result.type = "numbered-pagination"
                 ELSE ret.result = null

\* C13 (as claimed): isValidNextPageElement returns false exactly when the
\* element is null, or its display is none, its visibility hidden or its opacity
\* 0, or its box has zero width and zero height, or it is disabled by property or
\* carries a disabled attribute of any value, whatever its kind; and true for
\* every other element.
IsValidIffConditions ==
    op = "isValidNextPageElement" =>
        LET e == elementOf(doc)
            rejected ==
                IF e = noElement THEN TRUE
                ELSE \/ e.style.display = "none"
                     \/ e.style.visibility = "hidden"
                     \/ e.style.opacity = "0"
                     \/ (e.rect.width = 0 /\ e.rect.height = 0)
                     \/ disabled(e)
                     \/ hasAttribute(e, "disabled")
        IN  ret.result = ~rejected

====
